---- MODULE Spec2Model ----
(***************************************************************************)
(* Global minimum cut: the two Stoer-Wagner variants (linear scan and      *)
(* priority queue) and the two Karger drivers (rejection sampling and      *)
(* shuffle), modelled step by step from the C++ sources.                   *)
(*                                                                         *)
(* One behaviour takes one caller-supplied adjacency matrix, runs the two  *)
(* deterministic variants on it one after the other and then one of the    *)
(* two randomized drivers.                                                 *)
(* C++ vectors are modelled as functions over 0..n-1, so indices are the   *)
(* source's indices.                                                       *)
(***************************************************************************)
EXTENDS Integers, Sequences, FiniteSets, Bags, TLC

\* ------------------------------------------------------------------ bounds
\* Largest vertex count of the exhaustively enumerated inputs.
MaxV == 3
\* Largest edge weight of the exhaustively enumerated inputs.
MaxW == 2
\* Largest trial count handed to karger_min_cut.
MaxTrials == 2
\* Largest vertex count of the matrices with weights other than 0 and 1
\* that are handed to karger_min_cut.
MaxWeightedV == 2

\* Largest diagonal entry (self-loop weight) of the inputs that carry one.
MaxD == 1

\* Largest element count of the DisjointUnionSets object called directly.
MaxN == 4

\* <climits>
INT_MAX == 2147483647

\* ----------------------------------------------------------------- helpers
\* std::max where std::min was meant.
Max2(a, b) == IF a < b THEN b ELSE a

\* std::min.
Min2(a, b) == IF b < a THEN b ELSE a

Idx(n) == 0 .. (n - 1)

\* Number of rows of a matrix / length of a vector: vector::size().
Size(f) == Cardinality(DOMAIN f)

\* vector::erase(begin() + k) on a vector held as a function over 0..n-1.
Erase(f, k) ==
    [i \in Idx(Size(f) - 1) |-> IF i < k THEN f[i] ELSE f[i + 1]]

RECURSIVE SumOver(_, _)
SumOver(S, f) ==
    IF S = {} THEN 0
    ELSE LET x == CHOOSE y \in S : TRUE
         IN  f[x] + SumOver(S \ {x}, f)

\* ------------------------------------------------------------------ inputs
Pairs(n) == {p \in Idx(n) \X Idx(n) : p[1] < p[2]}

\* The matrix main() builds from an edge list: G[src][dst] = G[dst][src] = w,
\* zero elsewhere.
MatrixOf(n, w) ==
    [i \in Idx(n) |-> [j \in Idx(n) |->
        IF i < j THEN w[<<i, j>>] ELSE IF j < i THEN w[<<j, i>>] ELSE 0]]

AllMatrices ==
    UNION {{MatrixOf(n, w) : w \in [Pairs(n) -> 0 .. MaxW]} : n \in 0 .. MaxV}

\* Edge list (0,1,3) (0,2,1) (1,2,2) (1,3,4) (2,3,1) on four vertices.
ScenarioWeighted ==
    MatrixOf(4, [p \in Pairs(4) |->
        CASE p = <<0, 1>> -> 3
          [] p = <<0, 2>> -> 1
          [] p = <<1, 2>> -> 2
          [] p = <<1, 3>> -> 4
          [] p = <<2, 3>> -> 1
          [] OTHER -> 0])

\* Four-vertex unit-weight graphs given by their edge sets.
UnitGraph(E) == MatrixOf(4, [p \in Pairs(4) |-> IF p \in E THEN 1 ELSE 0])

\* A triangle 0-1-2 and a separate edge 3-4, on five vertices: the smallest
\* graph on which a scan of the edges in some order meets a self-loop of the
\* contracted graph while more than two components are left.
TriangleAndEdge ==
    MatrixOf(5, [p \in Pairs(5) |->
        IF p \in {<<0, 1>>, <<0, 2>>, <<1, 2>>, <<3, 4>>} THEN 1 ELSE 0])

ScenarioGraphs ==
    { ScenarioWeighted,
      TriangleAndEdge,
      \* complete graph K4
      UnitGraph(Pairs(4)),
      \* two cliques of size 2 joined by one edge
      UnitGraph({<<0, 1>>, <<1, 2>>, <<2, 3>>}),
      \* cycle
      UnitGraph({<<0, 1>>, <<1, 2>>, <<2, 3>>, <<0, 3>>}),
      \* two components, no edge between them
      UnitGraph({<<0, 1>>, <<2, 3>>}),
      UnitGraph({<<0, 2>>, <<1, 2>>}),
      \* three components
      UnitGraph({<<1, 3>>}),
      \* triangle with a pendant vertex
      UnitGraph({<<0, 1>>, <<0, 2>>, <<1, 2>>, <<2, 3>>}) }
    \cup {UnitGraph(E) : E \in SUBSET Pairs(4)}

Inputs == AllMatrices \cup ScenarioGraphs

\* M with the self-loop weights d on its diagonal: main() stores an input
\* line "i i w" as G[i][i] = w.
WithDiagonal(M, d) ==
    [i \in DOMAIN M |-> [j \in DOMAIN M |-> IF i = j THEN d[i] ELSE M[i][j]]]

\* main() of both Karger files stores 1 for every edge it reads, so the
\* drivers are run on the 0/1 matrices; they are run on matrices of other
\* weights too, up to MaxWeightedV vertices.
KargerInput(M) ==
    \/ \A p \in Pairs(Size(M)) : M[p[1]][p[2]] \in {0, 1}
    \/ Size(M) <= MaxWeightedV

\* --------------------------------------------------- what a cut weighs
\* Total weight of the edges of M between S and the other vertices.
CutWeight(M, S) ==
    LET n == Size(M)
        X == {p \in Pairs(n) : (p[1] \in S) # (p[2] \in S)}
    IN  SumOver(X, [p \in X |-> M[p[1]][p[2]]])

\* Minimum over all partitions of the vertices into two non-empty parts.
TrueMinCut(M) ==
    LET n == Size(M)
        Parts == {S \in SUBSET Idx(n) : 0 \in S /\ S # Idx(n)}
        weights == {CutWeight(M, S) : S \in Parts}
    IN  CHOOSE c \in weights : \A d \in weights : c <= d

\* ------------------------------------------------------------------- state
VARIABLES
    input,   \* the caller's adjacency matrix, as main() built it
    sw,      \* stoer_wagner.cpp: locals of stoer_wagner, position, result
    swpq,    \* stoer_wagner_pq.cpp: locals of stoer_wagner, position, result
    kopt,    \* kargercppopt.cpp: locals of karger_min_cut and of its trial
    kver,    \* kargercppver.cpp: locals of karger_min_cut and of its trial
    uf       \* a DisjointUnionSets object called directly, and its last call

vars == <<input, sw, swpq, kopt, kver, uf>>

\* A std::vector<int> of n copies of x.
Fill(n, x) == [i \in Idx(n) |-> x]

\* ============================================================ linear scan
\* stoer_wagner.cpp. sw.G is the caller's matrix itself (taken by reference).
\* order lists every mosttightvertex selected, phase after phase.
swIdle ==
    [pc |-> "call", G |-> <<>>, V |-> 0, mincut |-> 0,
     added |-> <<>>, weight |-> <<>>,
     unadded |-> 0, prev |-> -1, last |-> 0, phases |-> 0, order |-> <<>>,
     result |-> 0]

\* ScanMax without the test of added[i].
RECURSIVE ScanMaxAnyVertex(_, _, _, _, _, _)
ScanMaxAnyVertex(weight, added, V, i, maxval, mosttightvertex) ==
    IF i >= V THEN mosttightvertex
    ELSE IF weight[i] > maxval
         THEN ScanMaxAnyVertex(weight, added, V, i + 1, weight[i], i)
         ELSE ScanMaxAnyVertex(weight, added, V, i + 1, maxval,
                               mosttightvertex)

\* Lines 57-64: the first not-yet-added vertex of strictly greatest weight;
\* -1 when no weight exceeds -1.
RECURSIVE ScanMax(_, _, _, _, _, _)
ScanMax(weight, added, V, i, maxval, mosttightvertex) ==
    IF i >= V THEN mosttightvertex
    ELSE IF weight[i] > maxval /\ added[i] = 0
         THEN ScanMax(weight, added, V, i + 1, weight[i], i)
         ELSE ScanMax(weight, added, V, i + 1, maxval, mosttightvertex)

\* AddRow reading row 0 in place of the row of the vertex just added.
AddRowFirstRow(weight, added, G, m) ==
    [i \in DOMAIN weight |->
        IF added[i] = 0 THEN weight[i] + G[0][i] ELSE weight[i]]

\* AddRow summing the vertex's own diagonal entry along with the entry of
\* row m.
AddRowWithLoop(weight, added, G, m) ==
    [i \in DOMAIN weight |->
        IF added[i] = 0 THEN weight[i] + G[m][i] + G[i][i] ELSE weight[i]]

\* AddRow with = in place of +=.
AddRowAssign(weight, added, G, m) ==
    [i \in DOMAIN weight |-> IF added[i] = 0 THEN G[m][i] ELSE weight[i]]

\* Lines 75-79 (and 98-103 of the queue variant): weight[i] += G[m][i] for
\* every vertex i not yet added.
AddRow(weight, added, G, m) ==
    [i \in DOMAIN weight |->
        IF added[i] = 0 THEN weight[i] + G[m][i] ELSE weight[i]]

\* MergeRows with the symmetric write G[i][prev] = G[prev][i] left out.
RECURSIVE MergeRowsOneSided(_, _, _, _, _)
MergeRowsOneSided(G, prev, last, i, V) ==
    IF i >= V THEN G
    ELSE MergeRowsOneSided([G EXCEPT ![prev][i] = G[prev][i] + G[last][i]],
                           prev, last, i + 1, V)

\* Lines 86-89: for i = 0..V-1, in this order,
\*     G[prev][i] += G[last][i];  G[i][prev] = G[prev][i];
RECURSIVE MergeRows(_, _, _, _, _)
MergeRows(G, prev, last, i, V) ==
    IF i >= V THEN G
    ELSE LET G1 == [G EXCEPT ![prev][i] = G[prev][i] + G[last][i]]
             G2 == [G1 EXCEPT ![i][prev] = G1[prev][i]]
         IN  MergeRows(G2, prev, last, i + 1, V)

\* EraseColsThenRow without the erasure of the row.
EraseColsOnly(G, last) == [i \in DOMAIN G |-> Erase(G[i], last)]

\* Lines 92-95: erase column last of every row, then row last.
EraseColsThenRow(G, last) ==
    Erase([i \in DOMAIN G |-> Erase(G[i], last)], last)

\* Lines 25-28.
SW_Enter ==
    /\ sw.pc = "call"
    /\ sw' = [sw EXCEPT !.pc = "while", !.V = Size(sw.G), !.mincut = INT_MAX]
    /\ UNCHANGED <<input, swpq, kopt, kver, uf>>

\* Lines 31-52: the outer loop's test holds; set up one phase.
SW_PhaseBegin ==
    /\ sw.pc = "while"
    /\ sw.V > 1
    /\ sw' = [sw EXCEPT
                !.pc = "inner",
                !.added = [Fill(sw.V, 0) EXCEPT ![0] = 1],
                !.unadded = sw.V - 1,
                !.weight = [i \in Idx(sw.V) |-> sw.G[i][0]],
                !.prev = -1,
                !.last = 0]
    /\ UNCHANGED <<input, swpq, kopt, kver, uf>>

\* Lines 55-80: one iteration of while (unadded).
SW_Select ==
    /\ sw.pc = "inner"
    /\ sw.unadded # 0
    /\ LET mosttightvertex == ScanMax(sw.weight, sw.added, sw.V, 0, -1, -1)
           added1 == [sw.added EXCEPT ![mosttightvertex] = 1]
       IN  sw' = [sw EXCEPT
                    !.prev = sw.last,
                    !.last = mosttightvertex,
                    !.added = added1,
                    !.unadded = sw.unadded - 1,
                    !.weight = AddRow(sw.weight, added1, sw.G, mosttightvertex),
                    !.order = Append(sw.order, mosttightvertex)]
    /\ UNCHANGED <<input, swpq, kopt, kver, uf>>

\* Lines 82-96: the phase's cut, the merge of last into prev, the erasure.
SW_Merge ==
    /\ sw.pc = "inner"
    /\ sw.unadded = 0
    /\ sw' = [sw EXCEPT
                !.pc = "while",
                !.mincut = Min2(sw.mincut, sw.weight[sw.last]),
                !.G = EraseColsThenRow(
                          MergeRows(sw.G, sw.prev, sw.last, 0, sw.V), sw.last),
                !.V = sw.V - 1,
                !.phases = sw.phases + 1]
    /\ UNCHANGED <<input, swpq, kopt, kver, uf>>

\* Lines 31, 100: the outer loop's test fails; return mincut. The locals go
\* out of scope; G is the caller's and stays as the phases left it.
SW_Return ==
    /\ sw.pc = "while"
    /\ sw.V <= 1
    /\ sw' = [swIdle EXCEPT !.pc = "returned", !.G = sw.G,
                            !.phases = sw.phases, !.order = sw.order,
                            !.result = sw.mincut]
    /\ UNCHANGED <<input, swpq, kopt, kver, uf>>

\* ========================================================= priority queue
\* stoer_wagner_pq.cpp. G is the function's own copy of the caller's G_mat;
\* pq is a std::priority_queue<pair<int,int>>: a max-heap of (weight, vertex)
\* under the pairs' lexicographic order, held here as the bag of its entries.
\* popped lists the entries the latest selection step took off the queue.
swpqIdle ==
    [pc |-> "idle", G_mat |-> <<>>, G |-> <<>>, V |-> 0, mincut |-> 0,
     pq |-> EmptyBag, added |-> <<>>, weight |-> <<>>, unadded |-> 0,
     prev |-> -1, last |-> 0, phases |-> 0, order |-> <<>>, result |-> 0,
     popped |-> <<>>]

\* operator< of std::pair<int,int>.
PairLess(a, b) == a[1] < b[1] \/ (a[1] = b[1] /\ a[2] < b[2])

\* Top of a min-heap (std::greater as the comparator): the least entry.
TopLeast(pq) ==
    CHOOSE t \in BagToSet(pq) : \A u \in BagToSet(pq) : ~PairLess(u, t)

\* priority_queue::top(): the greatest entry.
Top(pq) ==
    CHOOSE t \in BagToSet(pq) : \A u \in BagToSet(pq) : ~PairLess(t, u)

\* priority_queue::pop(): one copy of the greatest entry leaves.
Pop(pq) == pq (-) SetToBag({Top(pq)})

\* priority_queue::push, for the entries (weight[i], i) of the vertices in S.
PushAll(pq, weight, S) == pq (+) SetToBag({<<weight[i], i>> : i \in S})

\* PopValid without the test of added[current_vertex]: the first entry
\* popped is taken.
PopValidNoCheck(pq, added) ==
    IF pq = EmptyBag
    THEN [pq |-> pq, mosttightvertex |-> -1, popped |-> <<>>]
    ELSE [pq |-> Pop(pq), mosttightvertex |-> Top(pq)[2],
          popped |-> <<Top(pq)>>]

\* Lines 70-81: pop until the popped vertex is not yet added or the queue
\* is empty; mosttightvertex is -1 when the queue ran empty. popped lists
\* the entries (current_weight, current_vertex) in the order they left.
RECURSIVE PopValid(_, _)
PopValid(pq, added) ==
    IF pq = EmptyBag
    THEN [pq |-> pq, mosttightvertex |-> -1, popped |-> <<>>]
    ELSE LET current_vertex == Top(pq)[2]
         IN  IF added[current_vertex] = 0
             THEN [pq |-> Pop(pq), mosttightvertex |-> current_vertex,
                   popped |-> <<Top(pq)>>]
             ELSE LET rest == PopValid(Pop(pq), added)
                  IN  [rest EXCEPT !.popped = <<Top(pq)>> \o rest.popped]

\* Lines 124-127: erase row last, then column last of every remaining row.
EraseRowThenCols(G, last) ==
    LET G1 == Erase(G, last)
    IN  [i \in DOMAIN G1 |-> Erase(G1[i], last)]

\* Lines 26-32: copy the caller's matrix.
SWPQ_Enter ==
    /\ sw.pc = "returned"
    /\ swpq.pc = "idle"
    /\ swpq' = [swpq EXCEPT !.pc = "while", !.G_mat = input, !.G = input,
                            !.V = Size(input), !.mincut = INT_MAX]
    /\ UNCHANGED <<input, sw, kopt, kver, uf>>

\* Lines 39-65: the outer loop's test holds; set up one phase.
SWPQ_PhaseBegin ==
    /\ swpq.pc = "while"
    /\ swpq.V > 1
    /\ LET weight0 == [i \in Idx(swpq.V) |->
                          IF i # 0 THEN swpq.G[0][i] ELSE 0]
       IN  swpq' = [swpq EXCEPT
                      !.pc = "inner",
                      !.added = [Fill(swpq.V, 0) EXCEPT ![0] = 1],
                      !.unadded = swpq.V - 1,
                      !.weight = weight0,
                      !.pq = PushAll(EmptyBag, weight0, Idx(swpq.V) \ {0}),
                      !.popped = <<>>,
                      !.prev = -1,
                      !.last = 0]
    /\ UNCHANGED <<input, sw, kopt, kver, uf>>

\* Lines 68-104: one iteration of while (unadded > 0); the iteration breaks
\* out of the loop when the queue holds no vertex that is not yet added.
SWPQ_Select ==
    /\ swpq.pc = "inner"
    /\ swpq.unadded > 0
    /\ LET popped == PopValid(swpq.pq, swpq.added)
           mosttightvertex == popped.mosttightvertex
           added1 == [swpq.added EXCEPT ![mosttightvertex] = 1]
           weight1 == AddRow(swpq.weight, added1, swpq.G, mosttightvertex)
       IN  IF mosttightvertex = -1
           THEN swpq' = [swpq EXCEPT !.pc = "broke", !.pq = popped.pq,
                                     !.popped = popped.popped]
           ELSE swpq' = [swpq EXCEPT
                           !.popped = popped.popped,
                           !.prev = swpq.last,
                           !.last = mosttightvertex,
                           !.added = added1,
                           !.unadded = swpq.unadded - 1,
                           !.weight = weight1,
                           !.pq = PushAll(popped.pq, weight1,
                                      {i \in Idx(swpq.V) : added1[i] = 0}),
                           !.order = Append(swpq.order, mosttightvertex)]
    /\ UNCHANGED <<input, sw, kopt, kver, uf>>

\* Lines 106-128: the phase's cut when every vertex was added, then either
\* the break of line 112 or the merge and the erasure.
SWPQ_Merge ==
    /\ swpq.pc = "broke" \/ (swpq.pc = "inner" /\ ~(swpq.unadded > 0))
    /\ LET mincut1 == IF swpq.unadded = 0
                      THEN Min2(swpq.mincut, swpq.weight[swpq.last])
                      ELSE swpq.mincut
       IN  IF swpq.prev = -1
           THEN swpq' = [swpq EXCEPT !.pc = "exit", !.mincut = mincut1]
           ELSE swpq' = [swpq EXCEPT
                           !.pc = "while",
                           !.mincut = mincut1,
                           !.G = EraseRowThenCols(
                                     MergeRows(swpq.G, swpq.prev, swpq.last,
                                               0, swpq.V), swpq.last),
                           !.V = swpq.V - 1,
                           !.phases = swpq.phases + 1]
    /\ UNCHANGED <<input, sw, kopt, kver, uf>>

\* Lines 39/112, 132: leave the outer loop and return mincut; the copy and
\* the other locals go out of scope.
SWPQ_Return ==
    /\ swpq.pc = "exit" \/ (swpq.pc = "while" /\ ~(swpq.V > 1))
    /\ swpq' = [swpqIdle EXCEPT !.pc = "returned", !.G_mat = swpq.G_mat,
                                !.phases = swpq.phases,
                                !.order = swpq.order,
                                !.result = swpq.mincut]
    /\ UNCHANGED <<input, sw, kopt, kver, uf>>

\* ============================================================= union-find
\* class DisjointUnionSets (the same text in both Karger files). A dus is
\* the record of the two member vectors.

\* The constructor: n singletons of rank 0.
DisjointUnionSets(n) == [rank |-> Fill(n, 0), parent |-> [i \in Idx(n) |-> i]]

\* find without path compression: the root, and the object as it was.
RECURSIVE findNoCompress(_, _)
findNoCompress(dus, i) ==
    IF dus.parent[i] = i THEN [root |-> i, dus |-> dus]
    ELSE findNoCompress(dus, dus.parent[i])

\* find(i) with path compression: the root, and the object after the call.
RECURSIVE find(_, _)
find(dus, i) ==
    IF dus.parent[i] = i THEN [root |-> i, dus |-> dus]
    ELSE LET r == find(dus, dus.parent[i])
         IN  [root |-> r.root,
              dus |-> [r.dus EXCEPT !.parent[i] = r.root]]

\* unionSets whose rank-tie branch raises the rank and forgets the link.
unionSetsTieNoLink(dus, x, y) ==
    LET fx == find(dus, x)
        fy == find(fx.dus, y)
        xRoot == fx.root
        yRoot == fy.root
        d == fy.dus
    IN  IF xRoot = yRoot THEN d
        ELSE IF d.rank[xRoot] < d.rank[yRoot]
             THEN [d EXCEPT !.parent[xRoot] = yRoot]
        ELSE IF d.rank[yRoot] < d.rank[xRoot]
             THEN [d EXCEPT !.parent[yRoot] = xRoot]
        ELSE [d EXCEPT !.rank[xRoot] = d.rank[xRoot] + 1]

\* unionSets whose rank-tie branch links and forgets rank[xRoot] += 1.
unionSetsNoRankBump(dus, x, y) ==
    LET fx == find(dus, x)
        fy == find(fx.dus, y)
        xRoot == fx.root
        yRoot == fy.root
        d == fy.dus
    IN  IF xRoot = yRoot THEN d
        ELSE IF d.rank[xRoot] < d.rank[yRoot]
             THEN [d EXCEPT !.parent[xRoot] = yRoot]
        ELSE [d EXCEPT !.parent[yRoot] = xRoot]

\* unionSets(x, y): union by rank; the object after the call.
unionSets(dus, x, y) ==
    LET fx == find(dus, x)
        fy == find(fx.dus, y)
        xRoot == fx.root
        yRoot == fy.root
        d == fy.dus
    IN  IF xRoot = yRoot THEN d
        ELSE IF d.rank[xRoot] < d.rank[yRoot]
             THEN [d EXCEPT !.parent[xRoot] = yRoot]
        ELSE IF d.rank[yRoot] < d.rank[xRoot]
             THEN [d EXCEPT !.parent[yRoot] = xRoot]
        ELSE [d EXCEPT !.parent[yRoot] = xRoot,
                       !.rank[xRoot] = d.rank[xRoot] + 1]

\* ------------------------------------------ the class called on its own
\* uf.dus is an object of the class; op, x, y and ret record its last call
\* (ret is what find returned) and before is the object as the call found it.
ufIdle ==
    [dus |-> DisjointUnionSets(0), op |-> "none", x |-> 0, y |-> 0, ret |-> 0,
     before |-> DisjointUnionSets(0)]

\* A call find(x) with any valid index.
DUS_Find ==
    /\ uf.op # "none"
    /\ \E x \in DOMAIN uf.dus.parent :
          LET r == find(uf.dus, x)
          IN  uf' = [dus |-> r.dus, op |-> "find", x |-> x, y |-> x,
                     ret |-> r.root, before |-> uf.dus]
    /\ UNCHANGED <<input, sw, swpq, kopt, kver>>

\* A call unionSets(x, y) with any two valid indices.
DUS_Union ==
    /\ uf.op # "none"
    /\ \E x \in DOMAIN uf.dus.parent : \E y \in DOMAIN uf.dus.parent :
          uf' = [dus |-> unionSets(uf.dus, x, y), op |-> "unionSets",
                 x |-> x, y |-> y, ret |-> 0, before |-> uf.dus]
    /\ UNCHANGED <<input, sw, swpq, kopt, kver>>

\* ------------------------------------------------- shared by both drivers
\* karger_min_cut's conversion of the adjacency matrix: for i, then j > i,
\* push (i, j) when G[i][j] == 1. The vector is a function over 0..E-1.
RECURSIVE PushEdges(_, _, _, _, _)
PushEdges(G, V, i, j, edges) ==
    IF i >= V THEN edges
    ELSE IF j >= V THEN PushEdges(G, V, i + 1, i + 2, edges)
    ELSE PushEdges(G, V, i, j + 1,
                   IF G[i][j] = 1
                   THEN [k \in Idx(Size(edges) + 1) |->
                            IF k < Size(edges) THEN edges[k] ELSE <<i, j>>]
                   ELSE edges)

\* Contract with the union done and the decrement left out.
ContractUncounted(dus, vertices, u, v) ==
    LET f1 == find(dus, u)
        f2 == find(f1.dus, v)
    IN  IF f1.root # f2.root
        THEN [dus |-> unionSets(f2.dus, f1.root, f2.root),
              vertices |-> vertices]
        ELSE [dus |-> f2.dus, vertices |-> vertices]

\* Contract with the decrement outside the test of the roots.
ContractAlwaysCounts(dus, vertices, u, v) ==
    LET f1 == find(dus, u)
        f2 == find(f1.dus, v)
    IN  IF f1.root # f2.root
        THEN [dus |-> unionSets(f2.dus, f1.root, f2.root),
              vertices |-> vertices - 1]
        ELSE [dus |-> f2.dus, vertices |-> vertices - 1]

\* One contraction attempt on the edge (u, v): the two finds, and when the
\* roots differ the decrement and the union.
Contract(dus, vertices, u, v) ==
    LET f1 == find(dus, u)
        f2 == find(f1.dus, v)
    IN  IF f1.root # f2.root
        THEN [dus |-> unionSets(f2.dus, f1.root, f2.root),
              vertices |-> vertices - 1]
        ELSE [dus |-> f2.dus, vertices |-> vertices]

\* CountCut with == in place of != in the test of the two finds.
RECURSIVE CountCutSameSide(_, _, _, _, _)
CountCutSameSide(dus, edges, E, i, cutedges) ==
    IF i >= E THEN [dus |-> dus, cutedges |-> cutedges]
    ELSE LET f1 == find(dus, edges[i][1])
             f2 == find(f1.dus, edges[i][2])
         IN  CountCutSameSide(f2.dus, edges, E, i + 1,
                      IF f1.root = f2.root THEN cutedges + 1 ELSE cutedges)

\* The counting loop: for i = 0..E-1, cutedges += 1 when the two finds of
\* edges[i] differ.
RECURSIVE CountCut(_, _, _, _, _)
CountCut(dus, edges, E, i, cutedges) ==
    IF i >= E THEN [dus |-> dus, cutedges |-> cutedges]
    ELSE LET f1 == find(dus, edges[i][1])
             f2 == find(f1.dus, edges[i][2])
         IN  CountCut(f2.dus, edges, E, i + 1,
                      IF f1.root # f2.root THEN cutedges + 1 ELSE cutedges)

\* The drivers' update with the test left out: min_cut = cut_size.
KeepLast(min_cut, cut_size) == cut_size

\* The drivers' update: if (cut_size < min_cut) min_cut = cut_size.
KeepSmaller(min_cut, cut_size) ==
    IF cut_size < min_cut THEN cut_size ELSE min_cut

\* Every order of the elements of a vector (what std::shuffle can leave).
RECURSIVE Orders(_)
Orders(S) ==
    IF S = {} THEN {<<>>}
    ELSE UNION {{<<x>> \o o : o \in Orders(S \ {x})} : x \in S}

Shuffles(edges) ==
    {[k \in DOMAIN edges |-> o[k + 1]] :
        o \in Orders({edges[k] : k \in DOMAIN edges})}

\* ================================================== Karger, shuffle-based
\* kargercppopt.cpp: karger_min_cut and, inlined at its call,
\* karger_min_cut_trial. i is the driver's loop counter, ti the trial's;
\* results lists the cut_size of every finished trial.
koptIdle ==
    [pc |-> "idle", trials |-> 0, V |-> 0, edges |-> <<>>, E |-> 0,
     min_cut |-> 0, i |-> 0, dus |-> DisjointUnionSets(0), vertices |-> 0,
     ti |-> 0, cutedges |-> 0, results |-> <<>>, result |-> 0]

\* Lines 113-133: the call, with any trial count.
KOPT_Enter ==
    /\ swpq.pc = "returned"
    /\ kopt.pc = "idle"
    /\ kver.pc = "idle"
    /\ KargerInput(input)
    /\ \E trials \in 0 .. MaxTrials :
         LET V == Size(input)
             edges == PushEdges(input, V, 0, 1, <<>>)
         IN  kopt' = [kopt EXCEPT !.pc = "for", !.trials = trials, !.V = V,
                                  !.edges = edges, !.E = Size(edges),
                                  !.min_cut = INT_MAX, !.i = 0]
    /\ UNCHANGED <<input, sw, swpq, kver, uf>>

\* Lines 135-138 and 81-84: shuffle, call the trial, build its union-find.
KOPT_Shuffle ==
    /\ kopt.pc = "for"
    /\ kopt.i < kopt.trials
    /\ \E shuffled_edges \in Shuffles(kopt.edges) :
         kopt' = [kopt EXCEPT !.pc = "scan", !.edges = shuffled_edges,
                              !.dus = DisjointUnionSets(kopt.V),
                              !.vertices = kopt.V, !.ti = 0]
    /\ UNCHANGED <<input, sw, swpq, kver, uf>>

\* Lines 85-96: one iteration of the scan that does not break.
KOPT_Step ==
    /\ kopt.pc = "scan"
    /\ kopt.ti < Size(kopt.edges)
    /\ ~(kopt.vertices <= 2)
    /\ LET c == Contract(kopt.dus, kopt.vertices,
                         kopt.edges[kopt.ti][1], kopt.edges[kopt.ti][2])
       IN  kopt' = [kopt EXCEPT !.dus = c.dus, !.vertices = c.vertices,
                                !.ti = kopt.ti + 1]
    /\ UNCHANGED <<input, sw, swpq, kver, uf>>

\* Lines 85-87 and 100-107: the scan ends (list exhausted, or the break at
\* vertices <= 2) and the crossing edges are counted.
KOPT_Count ==
    /\ kopt.pc = "scan"
    /\ ~(kopt.ti < Size(kopt.edges)) \/ kopt.vertices <= 2
    /\ LET c == CountCut(kopt.dus, kopt.edges, kopt.E, 0, 0)
       IN  kopt' = [kopt EXCEPT !.pc = "ret", !.dus = c.dus,
                                !.cutedges = c.cutedges]
    /\ UNCHANGED <<input, sw, swpq, kver, uf>>

\* Lines 109 and 138-142: the trial returns cutedges, its locals go out of
\* scope, and the driver keeps the smaller of min_cut and cut_size.
KOPT_TrialReturn ==
    /\ kopt.pc = "ret"
    /\ LET cut_size == kopt.cutedges
       IN  kopt' = [kopt EXCEPT
                      !.pc = "for",
                      !.min_cut = KeepSmaller(kopt.min_cut, cut_size),
                      !.i = kopt.i + 1,
                      !.dus = DisjointUnionSets(0), !.vertices = 0,
                      !.ti = 0, !.cutedges = 0,
                      !.results = Append(kopt.results, cut_size)]
    /\ UNCHANGED <<input, sw, swpq, kver, uf>>

\* Lines 135, 144: the driver's loop ends; return min_cut.
KOPT_Return ==
    /\ kopt.pc = "for"
    /\ ~(kopt.i < kopt.trials)
    /\ kopt' = [koptIdle EXCEPT !.pc = "returned", !.trials = kopt.trials,
                                !.results = kopt.results,
                                !.result = kopt.min_cut]
    /\ UNCHANGED <<input, sw, swpq, kver, uf>>

\* =============================================== Karger, rejection sampling
\* kargercppver.cpp: karger_min_cut and, inlined at its call,
\* karger_min_cut_trial. results lists the cut_size of every finished trial.
kverIdle ==
    [pc |-> "idle", trials |-> 0, V |-> 0, edges |-> <<>>, E |-> 0,
     min_cut |-> 0, i |-> 0, dus |-> DisjointUnionSets(0), vertices |-> 0,
     cutedges |-> 0, results |-> <<>>, result |-> 0]

\* Lines 126-146: the call, with any trial count.
KVER_Enter ==
    /\ swpq.pc = "returned"
    /\ kver.pc = "idle"
    /\ kopt.pc = "idle"
    /\ KargerInput(input)
    /\ \E trials \in 0 .. MaxTrials :
         LET V == Size(input)
             edges == PushEdges(input, V, 0, 1, <<>>)
         IN  kver' = [kver EXCEPT !.pc = "for", !.trials = trials, !.V = V,
                                  !.edges = edges, !.E = Size(edges),
                                  !.min_cut = INT_MAX, !.i = 0]
    /\ UNCHANGED <<input, sw, swpq, kopt, uf>>

\* Lines 148-149 and 82-85: call the trial, build its union-find.
KVER_TrialBegin ==
    /\ kver.pc = "for"
    /\ kver.i < kver.trials
    /\ kver' = [kver EXCEPT !.pc = "while",
                            !.dus = DisjointUnionSets(kver.V),
                            !.vertices = kver.V]
    /\ UNCHANGED <<input, sw, swpq, kopt, uf>>

\* Lines 88-109: one iteration of while (vertices > 2) with a drawn index
\* i = rand() % E. With E == 0 the remainder is undefined behaviour: the
\* process traps, or it goes on with whatever it reads as an edge.
KVER_Draw ==
    /\ kver.pc = "while"
    /\ kver.vertices > 2
    /\ IF kver.E = 0
       THEN \E trap \in BOOLEAN :
              IF trap
              THEN kver' = [kver EXCEPT !.pc = "trap"]
              ELSE \E u \in Idx(kver.V), v \in Idx(kver.V) :
                     LET c == Contract(kver.dus, kver.vertices, u, v)
                     IN  kver' = [kver EXCEPT !.dus = c.dus,
                                              !.vertices = c.vertices]
       ELSE \E i \in Idx(kver.E) :
              LET c == Contract(kver.dus, kver.vertices,
                                kver.edges[i][1], kver.edges[i][2])
              IN  kver' = [kver EXCEPT !.dus = c.dus,
                                       !.vertices = c.vertices]
    /\ UNCHANGED <<input, sw, swpq, kopt, uf>>

\* Lines 88 and 113-120: the loop's test fails; count the crossing edges.
KVER_Count ==
    /\ kver.pc = "while"
    /\ ~(kver.vertices > 2)
    /\ LET c == CountCut(kver.dus, kver.edges, kver.E, 0, 0)
       IN  kver' = [kver EXCEPT !.pc = "ret", !.dus = c.dus,
                                !.cutedges = c.cutedges]
    /\ UNCHANGED <<input, sw, swpq, kopt, uf>>

\* Lines 122 and 149-153: the trial returns cutedges, its locals go out of
\* scope, and the driver keeps the smaller of min_cut and cut_size.
KVER_TrialReturn ==
    /\ kver.pc = "ret"
    /\ LET cut_size == kver.cutedges
       IN  kver' = [kver EXCEPT
                      !.pc = "for",
                      !.min_cut = KeepSmaller(kver.min_cut, cut_size),
                      !.i = kver.i + 1,
                      !.dus = DisjointUnionSets(0), !.vertices = 0,
                      !.cutedges = 0,
                      !.results = Append(kver.results, cut_size)]
    /\ UNCHANGED <<input, sw, swpq, kopt, uf>>

\* Lines 148, 155: the driver's loop ends; return min_cut.
KVER_Return ==
    /\ kver.pc = "for"
    /\ ~(kver.i < kver.trials)
    /\ kver' = [kverIdle EXCEPT !.pc = "returned", !.trials = kver.trials,
                                !.results = kver.results,
                                !.result = kver.min_cut]
    /\ UNCHANGED <<input, sw, swpq, kopt, uf>>

\* ========================================================== specification
Init ==
    /\ input \in Inputs
    /\ sw = [swIdle EXCEPT !.G = input]
    /\ swpq = swpqIdle
    /\ kopt = koptIdle
    /\ kver = kverIdle
    /\ uf = ufIdle

Next ==
    \/ SW_Enter
    \/ SW_PhaseBegin
    \/ SW_Select
    \/ SW_Merge
    \/ SW_Return
    \/ SWPQ_Enter
    \/ SWPQ_PhaseBegin
    \/ SWPQ_Select
    \/ SWPQ_Merge
    \/ SWPQ_Return
    \/ KOPT_Enter
    \/ KOPT_Shuffle
    \/ KOPT_Step
    \/ KOPT_Count
    \/ KOPT_TrialReturn
    \/ KOPT_Return
    \/ KVER_Enter
    \/ KVER_TrialBegin
    \/ KVER_Draw
    \/ KVER_Count
    \/ KVER_TrialReturn
    \/ KVER_Return

Spec == Init /\ [][Next]_vars

\* ------------------------------------------------- inputs with self-loops
\* The two deterministic variants run on matrices whose diagonal is not
\* zero: every 0/1 matrix and every small weighted matrix of Inputs, under
\* every diagonal with entries up to MaxD.
DiagInputs ==
    UNION {{WithDiagonal(M, d) : d \in [Idx(Size(M)) -> 0 .. MaxD]} :
              M \in {N \in Inputs : KargerInput(N)}}

InitDiag ==
    /\ input \in DiagInputs
    /\ sw = [swIdle EXCEPT !.G = input]
    /\ swpq = swpqIdle
    /\ kopt = koptIdle
    /\ kver = kverIdle
    /\ uf = ufIdle

NextDiag ==
    \/ SW_Enter
    \/ SW_PhaseBegin
    \/ SW_Select
    \/ SW_Merge
    \/ SW_Return
    \/ SWPQ_Enter
    \/ SWPQ_PhaseBegin
    \/ SWPQ_Select
    \/ SWPQ_Merge
    \/ SWPQ_Return

SpecDiag == InitDiag /\ [][NextDiag]_vars

\* ------------------------------------------------ the union-find alone
\* An object of 0..MaxN elements is constructed and then receives any
\* sequence of find and unionSets calls.
InitDUS ==
    /\ input = <<>>
    /\ sw = [swIdle EXCEPT !.G = input]
    /\ swpq = swpqIdle
    /\ kopt = koptIdle
    /\ kver = kverIdle
    /\ \E n \in 0 .. MaxN :
          uf = [ufIdle EXCEPT !.dus = DisjointUnionSets(n), !.op = "new",
                              !.before = DisjointUnionSets(n)]

NextDUS ==
    \/ DUS_Find
    \/ DUS_Union

SpecDUS == InitDUS /\ [][NextDUS]_vars

\* ============================================================= properties
\* ------------------------------------------- what the properties speak of
\* The unit-weight edges of a matrix: what karger_min_cut reads as the graph.
EdgeSet(M) == {p \in Pairs(Size(M)) : M[p[1]][p[2]] = 1}

\* The edges of a matrix of any positive weight.
Support(M) == {p \in Pairs(Size(M)) : M[p[1]][p[2]] > 0}

\* The vertices reachable from S along the edges of E.
RECURSIVE Grow(_, _)
Grow(S, E) ==
    LET T == S \cup {e[2] : e \in {d \in E : d[1] \in S}}
               \cup {e[1] : e \in {d \in E : d[2] \in S}}
    IN  IF T = S THEN S ELSE Grow(T, E)

\* The connected components of the graph (0..n-1, E).
ComponentsOf(n, E) == {Grow({v}, E) : v \in Idx(n)}

\* The edges of E with one endpoint in S and the other outside.
Crossing(E, S) == {e \in E : (e[1] \in S) # (e[2] \in S)}

\* Least number of edges of E crossing a split of 0..n-1 in two parts, n >= 2.
EdgeMinCut(n, E) ==
    LET Parts == {S \in SUBSET Idx(n) : 0 \in S /\ S # Idx(n)}
        sizes == {Cardinality(Crossing(E, S)) : S \in Parts}
    IN  CHOOSE c \in sizes : \A d \in sizes : c <= d

\* The root above x, following parent links without rewriting them.
RECURSIVE Root(_, _)
Root(parent, x) == IF parent[x] = x THEN x ELSE Root(parent, parent[x])

Roots(parent) == {Root(parent, x) : x \in DOMAIN parent}

\* The edges of E whose endpoints lie under different roots.
Separated(parent, E) == {e \in E : Root(parent, e[1]) # Root(parent, e[2])}

RECURSIVE MinOfSeq(_, _)
MinOfSeq(q, top) ==
    IF q = <<>> THEN top
    ELSE LET m == MinOfSeq(Tail(q), top)
         IN  IF Head(q) < m THEN Head(q) ELSE m

\* The two randomized programs.
Kargers == {kopt, kver}

\* Every program that is run on the input has returned: the two
\* deterministic variants, and a randomized driver when the input is one
\* the drivers are run on.
AllReturned ==
    /\ sw.pc = "returned"
    /\ swpq.pc = "returned"
    /\ KargerInput(input) => (kopt.pc = "returned" \/ kver.pc = "returned")

\* The state a deterministic variant's return produces; its record stays
\* as it is from there on, so its result is read here.
SwReturns == sw.pc = "returned" /\ swpq.pc = "idle"
SwpqReturns == swpq.pc = "returned" /\ kopt.pc = "idle" /\ kver.pc = "idle"

\* --------------------------------------------------------------------- C1
\* C1: for every symmetric non-negative matrix with zero diagonal and at
\* least two vertices, the value the linear-scan stoer_wagner returns is the
\* least weight of the edges crossing any split of the vertices in two
\* non-empty parts.
C1_LinearScanExact ==
    (SwReturns /\ Size(input) >= 2) => sw.result = TrueMinCut(input)

\* A four-vertex graph whose minimum cut is 2 or more has been solved.
C1_Witness ==
    /\ SwReturns
    /\ Size(input) = 4
    /\ sw.result >= 2
    /\ sw.result = TrueMinCut(input)

\* --------------------------------------------------------------------- C2
\* C2: on every input with at least two vertices the priority-queue variant
\* returns the value the linear-scan variant returns, also when weight ties
\* make the two select the vertices in different orders.
C2_QueueAgreesWithScan ==
    (swpq.pc = "returned" /\ Size(input) >= 2) => swpq.result = sw.result

\* Both have returned, having selected the vertices in different orders
\* from the very first selection on (a tie: the scan takes the lowest
\* index, the heap the highest).
C2_Witness ==
    /\ swpq.pc = "returned"
    /\ Size(input) >= 3
    /\ sw.order[1] < swpq.order[1]
    /\ input[0][sw.order[1]] = input[0][swpq.order[1]]
    /\ swpq.result = sw.result
    /\ sw.result > 0

\* --------------------------------------------------------------------- C3
\* C3 as stated: on the graph (0,1,3) (0,2,1) (1,2,2) (1,3,4) (2,3,1) the
\* deterministic engine returns 3, the minimum over the 7 splits.
C3_ScenarioReturns3 ==
    /\ (sw.pc = "returned" /\ input = ScenarioWeighted) => sw.result = 3
    /\ (swpq.pc = "returned" /\ input = ScenarioWeighted) => swpq.result = 3

\* C3 as amended: on that graph both deterministic variants return 4, and 4
\* is the minimum over its 7 splits in two non-empty parts.
C3_ScenarioReturns4 ==
    input = ScenarioWeighted =>
        /\ sw.pc = "returned" => sw.result = 4
        /\ swpq.pc = "returned" => swpq.result = 4
        /\ SwReturns =>
              /\ TrueMinCut(input) = 4
              /\ Cardinality({S \in SUBSET Idx(4) :
                                 0 \in S /\ S # Idx(4)}) = 7

C3_Witness ==
    /\ input = ScenarioWeighted
    /\ sw.pc = "returned"
    /\ swpq.pc = "returned"
    /\ sw.phases = 3
    /\ swpq.phases = 3

\* --------------------------------------------------------------------- C4
\* C4: every algorithmic path terminates on every validated input: no
\* program is ever at a point it cannot leave. In every reachable state
\* either every program that is run on the input has returned or some step
\* changes the state.
C4_AllPathsTerminate == AllReturned \/ ENABLED <<Next>>_vars

\* --------------------------------------------------------------------- C5
\* C5: on a connected unit-weight graph with at least two vertices, when a
\* trial of either implementation is about to return, exactly two
\* union-find components remain and the value it returns is the number of
\* edges of the original list whose endpoints lie in different components.
C5_TrialCountsCrossingEdges ==
    \A k \in Kargers :
        ( /\ k.pc = "ret"
          /\ k.V >= 2
          /\ Support(input) = EdgeSet(input)
          /\ Cardinality(ComponentsOf(k.V, EdgeSet(input))) = 1 )
        => /\ Cardinality(Roots(k.dus.parent)) = 2
           /\ k.cutedges = Cardinality(Separated(k.dus.parent, EdgeSet(input)))

\* A shuffled trial on a connected four-vertex graph is about to return a
\* cut of three edges.
C5_Witness ==
    /\ kopt.pc = "ret"
    /\ kopt.V = 4
    /\ Support(input) = EdgeSet(input)
    /\ Cardinality(ComponentsOf(4, EdgeSet(input))) = 1
    /\ Cardinality(Roots(kopt.dus.parent)) = 2
    /\ kopt.cutedges = 3

\* --------------------------------------------------------------------- C6
\* C6: on a graph with at least two vertices the value a trial is about to
\* return, also when its edge list ran out with more than two components
\* left, is at least the least number of edges crossing any split of the
\* graph; so is the driver's min_cut at every point, and the value it
\* returns.
C6_NeverUnderstates ==
    \A k \in Kargers :
        LET true_cut == EdgeMinCut(Size(input), EdgeSet(input))
        IN  /\ (k.pc = "ret" /\ k.V >= 2) => k.cutedges >= true_cut
            /\ (k.pc \in {"for", "ret"} /\ k.V >= 2) => k.min_cut >= true_cut
            /\ (k.pc = "returned" /\ Size(input) >= 2) => k.result >= true_cut

\* A shuffled trial whose list ran out with three components or more left
\* is about to return.
C6_Witness ==
    /\ kopt.pc = "ret"
    /\ kopt.V >= 3
    /\ kopt.E >= 1
    /\ kopt.ti = kopt.E
    /\ kopt.vertices > 2
    /\ Cardinality(Roots(kopt.dus.parent)) > 2

\* --------------------------------------------------------------------- C7
\* C7: in both drivers, after k trials min_cut is the least of the first k
\* trial results (INT_MAX for k = 0), and the value returned is the least of
\* all the trial results; min_cut never grows from one step to the next.
C7_MinOfTrials ==
    \A k \in Kargers :
        /\ k.pc \in {"for", "scan", "while", "ret"} =>
              /\ Len(k.results) = k.i
              /\ k.min_cut = MinOfSeq(k.results, INT_MAX)
              /\ \A n \in 1 .. Len(k.results) :
                    k.min_cut <= MinOfSeq(SubSeq(k.results, 1, n), INT_MAX)
        /\ k.pc = "returned" =>
              /\ Len(k.results) = k.trials
              /\ k.result = MinOfSeq(k.results, INT_MAX)

\* Two trials were run and the second found a larger cut than the first.
C7_Witness ==
    /\ kopt.pc = "returned"
    /\ kopt.trials = 2
    /\ kopt.results[1] < kopt.results[2]
    /\ kopt.result = kopt.results[1]

\* --------------------------------------------------------------------- C8
\* C8: with fewer than two vertices both deterministic variants run no
\* phase and return INT_MAX; with two vertices or more they never return
\* INT_MAX.
C8_UndefinedSentinel ==
    \A r \in {sw, swpq} :
        r.pc = "returned" =>
            IF Size(input) < 2
            THEN r.result = INT_MAX /\ r.phases = 0
            ELSE r.result # INT_MAX /\ r.phases >= 1

\* Both variants have returned the sentinel for a one-vertex matrix.
C8_Witness ==
    /\ Size(input) = 1
    /\ sw.pc = "returned"
    /\ swpq.pc = "returned"
    /\ sw.result = INT_MAX
    /\ swpq.result = INT_MAX

\* --------------------------------------------------------------------- C9
\* C9: for a degenerate input (fewer than two vertices, or no edge) a
\* randomized driver run with one trial or more does not return 0.
C9_DegenerateNotZero ==
    \A k \in Kargers :
        ( /\ k.pc = "returned"
          /\ k.trials >= 1
          /\ (Size(input) < 2 \/ EdgeSet(input) = {}) )
        => k.result # 0

\* -------------------------------------------------------------------- C10
\* C10: on a graph of exactly two connected components both deterministic
\* variants return 0, and both randomized drivers, run with one trial or
\* more, return 0.
C10_TwoComponentsGiveZero ==
    LET two == Cardinality(ComponentsOf(Size(input), Support(input))) = 2
    IN  /\ (SwReturns /\ two) => sw.result = 0
        /\ (SwpqReturns /\ two) => swpq.result = 0
        /\ \A k \in Kargers :
              (k.pc = "returned" /\ k.trials >= 1 /\ two) => k.result = 0

\* The rejection-sampling driver has returned 0 after two trials on a
\* four-vertex graph of two components with edges in each.
C10_Witness ==
    /\ Size(input) = 4
    /\ Cardinality(ComponentsOf(4, Support(input))) = 2
    /\ Cardinality(Support(input)) >= 2
    /\ sw.pc = "returned"
    /\ swpq.pc = "returned"
    /\ sw.result = 0
    /\ swpq.result = 0
    /\ kver.pc = "returned"
    /\ kver.trials = 2
    /\ kver.result = 0

\* -------------------------------------------------------------------- C11
\* C11: on two vertices joined by one edge of weight w >= 1 the
\* deterministic engine returns w, and karger_min_cut run with one trial or
\* more returns w.
C11_SingleEdgeReturnsWeight ==
    (Size(input) = 2 /\ input[0][1] >= 1) =>
        /\ sw.pc = "returned" => sw.result = input[0][1]
        /\ swpq.pc = "returned" => swpq.result = input[0][1]
        /\ \A k \in Kargers :
              (k.pc = "returned" /\ k.trials >= 1) => k.result = input[0][1]

\* -------------------------------------------------------------------- C12
\* C12: a call of the deterministic engine leaves the caller's matrix as it
\* was: after stoer_wagner returns, the matrix the caller passed (sw.G for
\* the linear scan, which takes it by reference; swpq.G_mat for the queue
\* variant, which copies it) is the input.
C12_CallerMatrixKept ==
    /\ sw.pc = "returned" => sw.G = input
    /\ swpq.pc = "returned" => swpq.G_mat = input

\* -------------------------------------------------------------------- C13
\* The two deterministic variants, as the objects the claims quantify over.
Variants == {sw, swpq}

\* The vertices of the running phase already added to the growing set.
AddedSet(p) == {a \in Idx(p.V) : p.added[a] = 1}

\* Total weight of the entries of row i of p.G in the columns of S.
RowSum(p, i, S) == SumOver(S, [a \in S |-> p.G[i][a]])

\* C13: in every phase of both variants, after the initialisation and after
\* every selection step, weight[i] of every vertex i not yet added is the
\* sum of G[i][a] over the added vertices a; and when the phase has added
\* every vertex, weight[last] is the total weight of the edges from last to
\* all the other vertices of the contracted graph.
C13_WeightInvariant ==
    \A p \in Variants :
        p.pc = "inner" =>
            /\ \A i \in Idx(p.V) \ AddedSet(p) :
                   p.weight[i] = RowSum(p, i, AddedSet(p))
            /\ p.unadded = 0 =>
                   p.weight[p.last] = RowSum(p, p.last, Idx(p.V) \ {p.last})

\* A later phase of the queue variant on a contracted graph: two vertices
\* added, the third still out with edges to both of them.
C13_Witness ==
    /\ swpq.pc = "inner" /\ swpq.phases >= 1 /\ swpq.V = 3
    /\ swpq.unadded = 1
    /\ \E i \in Idx(3) :
          /\ swpq.added[i] = 0
          /\ \A a \in Idx(3) \ {i} : swpq.G[i][a] > 0
          /\ swpq.weight[i] > swpq.G[i][0]

\* -------------------------------------------------------------------- C14
\* G has n rows of n entries each.
Square(G, n) == DOMAIN G = Idx(n) /\ \A i \in Idx(n) : DOMAIN G[i] = Idx(n)

Symmetric(G) == \A i \in DOMAIN G : \A j \in DOMAIN G : G[i][j] = G[j][i]

\* The positions of a call that is under way.
Running(p) == p.pc \in {"while", "inner", "broke", "exit"}

\* C14: in both variants the working matrix is square and symmetric through
\* the whole call: after every merge and erasure of row and column last it
\* has one row and one column fewer (V0 less the number of merges) and
\* G[i][j] = G[j][i], whether prev < last or prev > last.
C14_SquareSymmetric ==
    \A p \in Variants :
        Running(p) =>
            /\ p.V = Size(input) - p.phases
            /\ Square(p.G, p.V)
            /\ Symmetric(p.G)

\* Just after a merge of the linear scan in which prev > last, on a matrix
\* that still has an edge.
C14_Witness ==
    /\ sw.pc = "while" /\ sw.phases >= 1
    /\ sw.prev > sw.last
    /\ sw.V >= 2
    /\ \E i \in Idx(sw.V) : \E j \in Idx(sw.V) : i # j /\ sw.G[i][j] > 0

\* -------------------------------------------------------------------- C15
\* C15: the working matrix of both variants keeps a zero diagonal through
\* every merge: the collapsed term G[prev][last] is dropped, not stored in
\* G[prev][prev].
C15_ZeroDiagonalKept ==
    \A p \in Variants :
        Running(p) => \A i \in Idx(p.V) : p.G[i][i] = 0

\* -------------------------------------------------------------------- C16
\* M with its diagonal set to zero: the part of M two matrices share when
\* they differ on the diagonal only.
OffDiagonal(M) == WithDiagonal(M, [i \in DOMAIN M |-> 0])

\* C16: the diagonal has no effect. On every input, whatever its diagonal,
\* each variant returns a value fixed by the off-diagonal entries alone (the
\* minimum cut of the matrix with the diagonal zeroed), so two inputs that
\* differ on the diagonal only get the same value; and inside every phase
\* the weight of a vertex not yet added, and the cut candidate weight[last],
\* are sums of off-diagonal entries only.
C16_DiagonalIgnored ==
    /\ (SwReturns /\ Size(input) >= 2) =>
           sw.result = TrueMinCut(OffDiagonal(input))
    /\ (SwpqReturns /\ Size(input) >= 2) =>
           swpq.result = TrueMinCut(OffDiagonal(input))
    /\ \A p \in Variants :
          p.pc = "inner" =>
              /\ \A i \in Idx(p.V) \ AddedSet(p) :
                     p.weight[i] =
                         SumOver(AddedSet(p),
                                 [a \in AddedSet(p) |-> OffDiagonal(p.G)[i][a]])
              /\ p.unadded = 0 =>
                     p.weight[p.last] =
                         SumOver(Idx(p.V),
                                 [a \in Idx(p.V) |-> OffDiagonal(p.G)[p.last][a]])

\* Both variants have returned the minimum cut, 2 or more, of a matrix whose
\* every diagonal entry is positive.
C16_Witness ==
    /\ SwpqReturns
    /\ Size(input) >= 3
    /\ \A i \in Idx(Size(input)) : input[i][i] > 0
    /\ sw.result >= 2
    /\ swpq.result = sw.result

\* -------------------------------------------------------------------- C17
\* C17: every selection step of the queue variant takes entries off the
\* queue, discarding those whose vertex is already added, and selects the
\* vertex of the first entry whose vertex is not: that vertex is not yet
\* added, its weight[] is the greatest among the vertices not yet added, and
\* the entry's weight is the vertex's current weight[], not an older one.
C17_PopsCurrentMaximum ==
    [][ (swpq.pc = "inner" /\ swpq.unadded > 0) =>
            LET m == swpq'.last
                popped == swpq'.popped
                n == Len(popped)
            IN  /\ swpq'.pc = "inner"
                /\ n >= 1
                /\ \A k \in 1 .. n - 1 : swpq.added[popped[k][2]] = 1
                /\ popped[n] = <<swpq.weight[m], m>>
                /\ m \in Idx(swpq.V) /\ swpq.added[m] = 0
                /\ \A i \in Idx(swpq.V) :
                       swpq.added[i] = 0 => swpq.weight[i] <= swpq.weight[m]
      ]_vars

\* A selection step has discarded an entry of an added vertex before taking
\* the entry of a vertex of positive weight, with older entries of lower
\* weight for that vertex still in the queue.
C17_Witness ==
    /\ swpq.pc = "inner"
    /\ Len(swpq.popped) >= 2
    /\ swpq.weight[swpq.last] > 0
    /\ \E e \in BagToSet(swpq.pq) :
          e[2] = swpq.last /\ e[1] < swpq.weight[swpq.last]

\* -------------------------------------------------------------------- C18
\* The selection steps of the phases that ran on more than V vertices, for
\* an input of V0 vertices: (V0 - 1) + ... + V.
StepsBefore(V0, V) == (V0 * (V0 - 1) - V * (V - 1)) \div 2

\* The vertices the running phase has selected so far, in order: what the
\* phase has appended to p.order.
Selected(p) == SubSeq(p.order, StepsBefore(Size(input), p.V) + 1, Len(p.order))

\* C18: on V >= 2 vertices every phase of both variants runs exactly V - 1
\* selection steps, each selecting a valid index of a vertex not yet added
\* (never -1: the queue never runs empty early and prev is never -1 at the
\* merge), so that every vertex is added exactly once in the phase and
\* prev # last at its end; and a call on V0 >= 2 vertices runs exactly
\* V0 - 1 phases.
C18_PhaseStructure ==
    /\ swpq.pc \notin {"broke", "exit"}
    /\ \A p \in Variants :
          /\ p.pc = "while" =>
                 /\ p.phases = Size(input) - p.V
                 /\ Len(p.order) = StepsBefore(Size(input), p.V)
          /\ p.pc = "inner" =>
                 LET sel == Selected(p)
                 IN  /\ p.V >= 2 /\ p.unadded >= 0
                     /\ Len(sel) = p.V - 1 - p.unadded
                     /\ \A k \in 1 .. Len(sel) : sel[k] \in Idx(p.V) \ {0}
                     /\ \A k \in 1 .. Len(sel) : \A l \in 1 .. Len(sel) :
                            k # l => sel[k] # sel[l]
                     /\ AddedSet(p) = {0} \cup {sel[k] : k \in 1 .. Len(sel)}
                     /\ \A i \in Idx(p.V) : p.added[i] \in {0, 1}
                     /\ p.last = IF Len(sel) = 0 THEN 0 ELSE sel[Len(sel)]
                     /\ p.unadded = 0 =>
                            /\ p.prev \in Idx(p.V)
                            /\ p.prev # p.last
          /\ (p.pc = "returned" /\ Size(input) >= 2) =>
                 /\ p.phases = Size(input) - 1
                 /\ Len(p.order) = StepsBefore(Size(input), 1)

\* The queue variant has returned from a call on four vertices: three
\* phases, of three, two and one selection steps.
C18_Witness ==
    /\ SwpqReturns
    /\ Size(input) = 4
    /\ swpq.phases = 3 /\ Len(swpq.order) = 6
    /\ sw.phases = 3 /\ Len(sw.order) = 6

\* -------------------------------------------------------------------- C19
\* The element k parent links above x.
RECURSIVE Ancestor(_, _, _)
Ancestor(parent, x, k) ==
    IF k = 0 THEN x ELSE Ancestor(parent, parent[x], k - 1)

\* Where the parent links from x lead within as many steps as there are
\* elements; a root exactly when the links from x run into no cycle.
TopOf(parent, x) == Ancestor(parent, x, Size(parent))

\* The elements on the way from x up to TopOf.
PathOf(parent, x) == {Ancestor(parent, x, k) : k \in 0 .. Size(parent)}

\* C19: after any sequence of find and unionSets calls, the parent links from
\* every element reach a root (an element that is its own parent): there is
\* no cycle. find(x) returns the root above x, leaves every element under the
\* root it was under, and leaves every element of the former path from x to
\* the root with the root as its parent.
C19_FindCompresses ==
    LET parent == uf.dus.parent
        old == uf.before.parent
    IN  /\ \A z \in DOMAIN parent :
              /\ parent[z] \in DOMAIN parent
              /\ parent[TopOf(parent, z)] = TopOf(parent, z)
        /\ uf.op = "find" =>
              /\ uf.ret = TopOf(old, uf.x)
              /\ \A z \in DOMAIN parent : TopOf(parent, z) = TopOf(old, z)
              /\ \A z \in PathOf(old, uf.x) : parent[z] = uf.ret

\* find(x) was called on an element two links below its root and has
\* rewritten its parent.
C19_Witness ==
    /\ uf.op = "find"
    /\ LET old == uf.before.parent
       IN  /\ old[uf.x] # uf.x
           /\ old[old[uf.x]] # old[uf.x]
           /\ uf.ret = old[old[uf.x]]
    /\ uf.dus.parent[uf.x] = uf.ret
    /\ uf.dus # uf.before

\* -------------------------------------------------------------------- C20
\* C20: unionSets(x, y) on two elements under one root changes no rank and
\* no element's root. On elements under two roots it merges exactly their two
\* components: the root of lower rank goes under the root of higher rank and
\* no rank changes, or, the ranks being equal, y's root goes under x's root
\* and the rank of x's root goes up by 1. After any sequence of calls every
\* element that is not a root has a rank strictly below its parent's.
C20_UnionByRank ==
    LET d == uf.dus
        b == uf.before
        xRoot == TopOf(b.parent, uf.x)
        yRoot == TopOf(b.parent, uf.y)
        winner == IF b.rank[xRoot] < b.rank[yRoot] THEN yRoot ELSE xRoot
        loser == IF b.rank[xRoot] < b.rank[yRoot] THEN xRoot ELSE yRoot
    IN  /\ \A z \in DOMAIN d.parent :
              d.parent[z] # z => d.rank[z] < d.rank[d.parent[z]]
        /\ (uf.op = "unionSets" /\ xRoot = yRoot) =>
              /\ d.rank = b.rank
              /\ \A z \in DOMAIN d.parent :
                     TopOf(d.parent, z) = TopOf(b.parent, z)
        /\ (uf.op = "unionSets" /\ xRoot # yRoot) =>
              /\ \A z \in DOMAIN d.parent :
                     TopOf(d.parent, z) =
                         IF TopOf(b.parent, z) \in {xRoot, yRoot}
                         THEN winner ELSE TopOf(b.parent, z)
              /\ d.parent[loser] = winner
              /\ d.parent[winner] = winner
              /\ b.rank[xRoot] # b.rank[yRoot] => d.rank = b.rank
              /\ b.rank[xRoot] = b.rank[yRoot] =>
                     d.rank = [b.rank EXCEPT ![xRoot] = b.rank[xRoot] + 1]

\* unionSets(x, y) has put x's root, of rank 0, under y's root of rank 1,
\* leaving a third component alone.
C20_Witness ==
    /\ uf.op = "unionSets"
    /\ LET b == uf.before
           xRoot == TopOf(b.parent, uf.x)
           yRoot == TopOf(b.parent, uf.y)
       IN  /\ b.rank[xRoot] < b.rank[yRoot]
           /\ uf.y # yRoot
           /\ uf.dus.parent[xRoot] = yRoot
           /\ uf.dus.rank = b.rank
           /\ \E z \in DOMAIN b.parent :
                 TopOf(uf.dus.parent, z) # yRoot

\* -------------------------------------------------------------------- C21
\* The positions inside karger_min_cut_trial, of either program.
InTrial(k) == k.pc \in {"scan", "while", "trap", "ret"}

\* What one step does to a trial's counter and union-find, k being the
\* program's record before the step and k2 after it.
CounterStep(k, k2) ==
    /\ InTrial(k2) => k2.vertices = Cardinality(Roots(k2.dus.parent))
    /\ (~InTrial(k) /\ InTrial(k2)) => k2.vertices = k2.V
    /\ (InTrial(k) /\ InTrial(k2)) =>
          \/ /\ k2.vertices = k.vertices
             /\ \A z \in Idx(k.V) :
                    Root(k2.dus.parent, z) = Root(k.dus.parent, z)
          \/ /\ k.vertices > 2
             /\ k2.vertices = k.vertices - 1
             /\ \E r \in Roots(k.dus.parent) :
                    /\ Roots(k2.dus.parent) = Roots(k.dus.parent) \ {r}
                    /\ \A z \in Idx(k.V) :
                           Root(k.dus.parent, z) # r =>
                               Root(k2.dus.parent, z) = Root(k.dus.parent, z)

\* C21: in a trial of either Karger program the counter vertices is the
\* number of union-find components at every iteration: it starts at V,
\* goes down by exactly one when an edge between two components is
\* contracted (one root lost, the other components untouched), stays when
\* the edge is a self-loop of the contracted graph, and once it is 2 or less
\* no union is performed.
C21_CounterTracksComponents ==
    [][CounterStep(kopt, kopt') /\ CounterStep(kver, kver')]_vars

\* The shuffle-based trial on five vertices has come down to two components
\* after scanning four edges, one of them a self-loop of the contracted
\* graph that left the counter as it was.
C21_Witness ==
    /\ kopt.pc = "scan"
    /\ kopt.V = 5
    /\ kopt.ti = 4
    /\ kopt.ti > kopt.V - kopt.vertices
    /\ kopt.vertices = 2
    /\ Cardinality(Roots(kopt.dus.parent)) = 2

====
